---- MODULE Spec2Model ----
(***************************************************************************)
(* Model of plugins/modules/database/mssql/mssql_script.py, run_module():  *)
(* the part that follows a successful connect (line 236 onwards).          *)
(*                                                                         *)
(* Text is a sequence of one-character strings, so that str.split is       *)
(* modelled by what it does on characters.  The cursor of the database     *)
(* driver is the environment: execute() either raises or leaves a sequence *)
(* of result sets behind, fetchall() hands out the rows of the next result *)
(* set (the empty list when none is left) or raises.                       *)
(***************************************************************************)
EXTENDS Integers, Sequences, FiniteSets, TLC

VARIABLES
    script,         \* module.params['script']
    output,         \* module.params['output']
    check_mode,     \* module.check_mode
    db,             \* module.params['name']
    pc,             \* position in run_module
    as_dict,        \* the cursor in use was made with as_dict=True
    queries,        \* queries
    result,         \* result
    query_results,  \* query_results
    qidx,           \* position of the for loop in queries (query = queries[qidx])
    qry_result,     \* qry_result
    rows,           \* rows
    pending,        \* cursor: result sets of the executed batch not fetched yet
    err,            \* the exception being handled (str(e))
    out,            \* keyword arguments of the exit_json / fail_json that ended the run
    submitted,      \* history: the positions in queries passed to cursor.execute
    produced,       \* history: per executed batch, the result sets the connection produced
    unnamed         \* history: the batch submitted last has a result set whose
                    \* columns are unnamed or share a name

vars == <<script, output, check_mode, db, pc, as_dict, queries, result,
          query_results, qidx, qry_result, rows, pending, err, out,
          submitted, produced, unnamed>>

----------------------------------------------------------------------------
(* Text *)

NL == "\n"

\* 'GO'
GO == <<"G", "O">>

\* '\nGO\n', the argument of script.split
separator == <<NL, "G", "O", NL>>

\* str.find(sub, start): the lowest position >= start where sub occurs,
\* 0 when there is none (positions count from 1)
find(s, sub, start) ==
    LET hits == {i \in start..(Len(s) - Len(sub) + 1) :
                    SubSeq(s, i, i + Len(sub) - 1) = sub}
    IN  IF hits = {} THEN 0
        ELSE CHOOSE i \in hits : \A j \in hits : i <= j

RECURSIVE str_split(_, _)
\* str.split(sep): cut at the non-overlapping occurrences of sep found from
\* the left; always at least one piece
str_split(s, sep) ==
    LET i == find(s, sep, 1)
    IN  IF i = 0 THEN <<s>>
        ELSE <<SubSeq(s, 1, i - 1)>>
                 \o str_split(SubSeq(s, i + Len(sep), Len(s)), sep)

RECURSIVE str_join(_, _)
\* sep.join(parts)
str_join(sep, parts) ==
    IF parts = <<>> THEN <<>>
    ELSE IF Len(parts) = 1 THEN parts[1]
    ELSE parts[1] \o sep \o str_join(sep, Tail(parts))

\* a split that throws empty batches away
split_script_drop_empty(s) ==
    SelectSeq(str_split(s, separator), LAMBDA b : b # <<>>)

\* a split at every "GO" followed by a newline, wherever it stands
split_script_on_go(s) == str_split(s, GO \o <<NL>>)

\* line 244: script.split('\nGO\n')
split_script(s) == str_split(s, separator)

----------------------------------------------------------------------------
(* Inputs *)

\* longest script, counted in pieces
MaxPieces == 3

\* the pieces scripts are put together from
Pieces == {<<"a">>, <<NL>>, GO, separator}

RECURSIVE ScriptsUpTo(_)
ScriptsUpTo(n) ==
    IF n = 0 THEN {<<>>}
    ELSE LET S == ScriptsUpTo(n - 1)
         IN  S \cup {s \o p : s \in S, p \in Pieces}

Scripts == ScriptsUpTo(MaxPieces)

\* databases the server has
Databases == {"master"}

\* values of the name parameter
DbNames == {"", "master", "nodb"}

\* what a batch can leave behind on the cursor: a sequence of result sets,
\* each a sequence of rows
NoRows == <<>>
ResultSetSeqs ==
    { <<>>,
      <<NoRows>>,
      << <<"r1">> >>,
      << <<"r1">>, <<"r2", "r3">> >>,
      << NoRows, <<"r1">> >>,
      << <<"r1">>, NoRows, <<"r2">> >> }

\* str(e) of what the driver raises
ColumnsWithoutNames == "ColumnsWithoutNamesError"
DriverErrors == {"syntax error", "connection lost"}

----------------------------------------------------------------------------
(* run_module *)

\* lines 177-180
db_exists(name) == name \in Databases

\* the existence test with its negation lost
db_missing_negated(name) == name # "" /\ db_exists(name)

\* line 238: the condition of the early exit
db_missing(name) == name # "" /\ ~db_exists(name)

\* the output parameter ignored: the cursor of line 227 stays in use
cursor_never_as_dict(mode) == FALSE

\* lines 241-242: the cursor is replaced by one made with as_dict=True
cursor_as_dict(mode) == mode = "dict"

\* line 239: module.exit_json(msg="Database %s does not exist" % db, **result)
db_missing_kwargs(res) == ("msg" :> "Database does not exist") @@ res

\* a failure report without the driver's message
fail_json_kwargs_no_error(query, e, res) ==
    ("msg" :> "query failed") @@ ("query" :> query) @@ res

\* a failure report that also hands over what was accumulated
fail_json_kwargs_partial(query, e, res) ==
    ("msg" :> "query failed") @@ ("query" :> query) @@ ("error" :> e)
        @@ ("query_results" :> query_results) @@ res

\* line 262: module.fail_json(msg="query failed", query=query, error=str(e), **result)
fail_json_kwargs(query, e, res) ==
    ("msg" :> "query failed") @@ ("query" :> query) @@ ("error" :> e) @@ res

Init ==
    /\ script \in Scripts
    /\ output \in {"default", "dict"}
    /\ check_mode \in BOOLEAN
    /\ db \in DbNames
    /\ pc = "db_check"
    /\ as_dict = FALSE
    /\ queries = <<>>
    /\ result = ("changed" :> FALSE)
    /\ query_results = <<>>
    /\ qidx = 1
    /\ qry_result = <<>>
    /\ rows = <<>>
    /\ pending = <<>>
    /\ err = ""
    /\ out = <<>>
    /\ submitted = <<>>
    /\ produced = <<>>
    /\ unnamed = FALSE

\* lines 238-239
DbMissingExit ==
    /\ pc = "db_check"
    /\ db_missing(db)
    /\ out' = db_missing_kwargs(result)
    /\ pc' = "exited"
    /\ UNCHANGED <<script, output, check_mode, db, as_dict, queries, result,
                   query_results, qidx, qry_result, rows, pending, err,
                   submitted, produced,
                   unnamed>>

\* lines 241-247
Split ==
    /\ pc = "db_check"
    /\ ~db_missing(db)
    /\ as_dict' = cursor_as_dict(output)
    /\ queries' = split_script(script)
    /\ result' = ("queries" :> queries') @@ ("changed" :> TRUE)
    /\ pc' = "check_mode"
    /\ UNCHANGED <<script, output, check_mode, db, query_results, qidx,
                   qry_result, rows, pending, err, out, submitted, produced,
                   unnamed>>

\* lines 248-249
CheckModeExit ==
    /\ pc = "check_mode"
    /\ check_mode
    /\ out' = result
    /\ pc' = "exited"
    /\ UNCHANGED <<script, output, check_mode, db, as_dict, queries, result,
                   query_results, qidx, qry_result, rows, pending, err,
                   submitted, produced,
                   unnamed>>

\* lines 248, 251-253
BeginLoop ==
    /\ pc = "check_mode"
    /\ ~check_mode
    /\ query_results' = <<>>
    /\ qidx' = 1
    /\ pc' = "for"
    /\ UNCHANGED <<script, output, check_mode, db, as_dict, queries, result,
                   qry_result, rows, pending, err, out, submitted, produced,
                   unnamed>>

\* lines 253-255: cursor.execute(query, sql_params) returns.  A cursor that
\* hands out rows as tuples takes any columns; one made with as_dict=True
\* takes only columns it can name.
Execute ==
    /\ pc = "for"
    /\ qidx <= Len(queries)
    /\ \E rs \in ResultSetSeqs, un \in BOOLEAN :
          /\ un => rs # <<>>
          /\ ~(as_dict /\ un)
          /\ pending' = rs
          /\ produced' = Append(produced, rs)
          /\ unnamed' = un
    /\ submitted' = Append(submitted, qidx)
    /\ qry_result' = <<>>
    /\ pc' = "fetchall"
    /\ UNCHANGED <<script, output, check_mode, db, as_dict, queries, result,
                   query_results, qidx, rows, err, out>>

\* line 254: cursor.execute(query, sql_params) raises (malformed statement,
\* constraint violation, connection lost)
ExecuteRaises ==
    /\ pc = "for"
    /\ qidx <= Len(queries)
    /\ err' \in DriverErrors
    /\ unnamed' = FALSE
    /\ submitted' = Append(submitted, qidx)
    /\ pc' = "except"
    /\ UNCHANGED <<script, output, check_mode, db, as_dict, queries, result,
                   query_results, qidx, qry_result, rows, pending, out,
                   produced>>

\* line 254 after line 242: the cursor made with as_dict=True raises on a
\* result set whose columns it cannot name
ExecuteUnnamed ==
    /\ pc = "for"
    /\ qidx <= Len(queries)
    /\ as_dict
    /\ unnamed' = TRUE
    /\ err' = ColumnsWithoutNames
    /\ submitted' = Append(submitted, qidx)
    /\ pc' = "except"
    /\ UNCHANGED <<script, output, check_mode, db, as_dict, queries, result,
                   query_results, qidx, qry_result, rows, pending, out,
                   produced>>

\* lines 256, 259: rows = cursor.fetchall()
FetchAll ==
    /\ pc = "fetchall"
    /\ IF pending = <<>>
       THEN rows' = <<>> /\ pending' = pending
       ELSE rows' = Head(pending) /\ pending' = Tail(pending)
    /\ pc' = "while"
    /\ UNCHANGED <<script, output, check_mode, db, as_dict, queries, result,
                   query_results, qidx, qry_result, err, out, submitted,
                   produced,
                   unnamed>>

\* lines 256, 259: cursor.fetchall() raises
FetchAllRaises ==
    /\ pc = "fetchall"
    /\ err' \in DriverErrors
    /\ pc' = "except"
    /\ UNCHANGED <<script, output, check_mode, db, as_dict, queries, result,
                   query_results, qidx, qry_result, rows, pending, out,
                   submitted, produced,
                   unnamed>>

\* lines 257-258: while rows: qry_result.append(rows)
WhileRows ==
    /\ pc = "while"
    /\ rows # <<>>
    /\ qry_result' = Append(qry_result, rows)
    /\ pc' = "fetchall"
    /\ UNCHANGED <<script, output, check_mode, db, as_dict, queries, result,
                   query_results, qidx, rows, pending, err, out, submitted,
                   produced,
                   unnamed>>

\* the end of the while loop with batches that gave nothing left out
AppendBatchSkipEmpty ==
    /\ pc = "while"
    /\ rows = <<>>
    /\ query_results' = IF qry_result = <<>> THEN query_results
                        ELSE Append(query_results, qry_result)
    /\ qidx' = qidx + 1
    /\ pc' = "for"
    /\ UNCHANGED <<script, output, check_mode, db, as_dict, queries, result,
                   qry_result, rows, pending, err, out, submitted, produced,
                   unnamed>>

\* lines 257, 260: the while loop ends; query_results.append(qry_result)
AppendBatch ==
    /\ pc = "while"
    /\ rows = <<>>
    /\ query_results' = Append(query_results, qry_result)
    /\ qidx' = qidx + 1
    /\ pc' = "for"
    /\ UNCHANGED <<script, output, check_mode, db, as_dict, queries, result,
                   qry_result, rows, pending, err, out, submitted, produced,
                   unnamed>>

\* an except clause that swallows the error and goes on with the next batch
ExceptContinue ==
    /\ pc = "except"
    /\ qidx' = qidx + 1
    /\ pc' = "for"
    /\ UNCHANGED <<script, output, check_mode, db, as_dict, queries, result,
                   query_results, qry_result, rows, pending, err, out,
                   submitted, produced, unnamed>>

\* lines 261-262
Except ==
    /\ pc = "except"
    /\ out' = fail_json_kwargs(queries[qidx], err, result)
    /\ pc' = "failed"
    /\ UNCHANGED <<script, output, check_mode, db, as_dict, queries, result,
                   query_results, qidx, qry_result, rows, pending, err,
                   submitted, produced,
                   unnamed>>

\* lines 253, 264-265: the for loop ends
Succeed ==
    /\ pc = "for"
    /\ qidx > Len(queries)
    /\ result' = ("query_results" :> query_results) @@ result
    /\ out' = result'
    /\ pc' = "exited"
    /\ UNCHANGED <<script, output, check_mode, db, as_dict, queries,
                   query_results, qidx, qry_result, rows, pending, err,
                   submitted, produced,
                   unnamed>>

Next ==
    \/ DbMissingExit
    \/ Split
    \/ CheckModeExit
    \/ BeginLoop
    \/ Execute
    \/ ExecuteRaises
    \/ ExecuteUnnamed
    \/ FetchAll
    \/ FetchAllRaises
    \/ WhileRows
    \/ AppendBatch
    \/ Except
    \/ Succeed

Spec == Init /\ [][Next]_vars

----------------------------------------------------------------------------
(* Properties *)

\* the script has been split (line 245 has run)
was_split == "queries" \in DOMAIN result

\* the lines of a text
lines(s) == str_split(s, <<NL>>)

\* how many lines of a text are exactly GO
go_lines(s) == Cardinality({i \in 1..Len(lines(s)) : lines(s)[i] = GO})

\* p is an initial stretch of s
is_prefix(p, s) == Len(p) <= Len(s) /\ SubSeq(s, 1, Len(p)) = p

\* C1: a script with N lines that are exactly GO (first line, last line and
\* a GO line directly after another one included) is split into N+1
\* batches, none of which still holds a GO line.
C1_GoLinesGiveBatches ==
    was_split =>
        /\ Len(queries) = go_lines(script) + 1
        /\ \A i \in 1..Len(queries) : go_lines(queries[i]) = 0

\* C2: the entry of every drained batch in query_results is exactly the
\* sequence of result sets the connection produced for it, result sets
\* without rows and the ones after them included.
C2_EveryResultSetKept ==
    \A j \in 1..Len(query_results) : query_results[j] = produced[j]

\* C3: batches are submitted in script order, each at most once; batch i is
\* submitted only when the batches before it are all drained; and once an
\* execution has failed nothing more is submitted.
C3_InOrderOnceAndStopOnFailure ==
    /\ [](/\ submitted = [i \in 1..Len(submitted) |-> i]
          /\ Len(submitted) <= Len(queries)
          /\ Len(submitted) <= Len(query_results) + 1
          /\ err # "" => Len(submitted) = Len(query_results) + 1)
    /\ [][err # "" => submitted' = submitted]_vars

\* a run that failed at the second of three batches
C3_Witness ==
    /\ pc = "failed"
    /\ Len(queries) = 3
    /\ submitted = <<1, 2>>
    /\ Len(query_results) = 1

C5_NoPartialResults ==
    /\ pc = "failed" => "query_results" \notin DOMAIN out
    /\ (out # <<>> /\ "query_results" \in DOMAIN out) =>
           /\ pc = "exited"
           /\ err = ""
           /\ qidx = Len(queries) + 1
           /\ out.query_results = query_results

\* a failure after a batch whose result sets were accumulated
C5_Witness ==
    /\ pc = "failed"
    /\ Len(query_results) = 1
    /\ query_results[1] = << <<"r1">>, <<"r2", "r3">> >>

C7_JoinGivesScriptBack ==
    was_split =>
        /\ str_join(separator, queries) = script
        /\ queries = split_script(script)

\* a script with an empty batch and a GO line that is no separator
C7_Witness ==
    /\ was_split
    /\ script = separator \o GO \o <<NL>>
    /\ queries = << <<>>, GO \o <<NL>> >>

\* C8: the empty script is the one batch "", submitted once; when that
\* batch produces no result set and nothing fails, the run ends with
\* query_results = [[]].
C8_EmptyScript ==
    script = <<>> =>
        /\ was_split => queries = << <<>> >>
        /\ Len(submitted) <= 1
        /\ (pc = "exited" /\ was_split /\ ~check_mode) => submitted = <<1>>
        /\ (produced = << <<>> >> /\ err = "") =>
              /\ pc \in {"fetchall", "while", "for", "exited"}
              /\ pc = "for" => ENABLED Succeed
              /\ pc = "exited" =>
                    /\ out.query_results = << <<>> >>
                    /\ out.queries = << <<>> >>

\* the empty script has run and has given nothing
C8_Witness ==
    /\ script = <<>>
    /\ pc = "exited"
    /\ submitted = <<1>>
    /\ produced = << <<>> >>
    /\ out.query_results = << <<>> >>

C10_CheckModeAndMissingDb ==
    LET absent == db # "" /\ db \notin Databases
    IN  /\ (check_mode \/ absent) =>
              /\ submitted = <<>>
              /\ pc \in {"db_check", "check_mode", "exited"}
              /\ pc = "exited" => "query_results" \notin DOMAIN out
        /\ (absent /\ pc = "exited") =>
              /\ out.changed = FALSE
              /\ DOMAIN out = {"msg", "changed"}
              /\ ~was_split
        /\ (check_mode /\ ~absent /\ pc = "exited") =>
              /\ out.changed = TRUE
              /\ out.queries = split_script(script)

\* check mode has ended a run whose script has two batches
C10_Witness ==
    /\ check_mode
    /\ pc = "exited"
    /\ "queries" \in DOMAIN out
    /\ Len(out.queries) = 2
    /\ submitted = <<>>

====
